---- MODULE Spec2Model ----
(***************************************************************************)
(* A model of time_in/__main__.py: the `tz` command of time-in and the     *)
(* helpers it calls.                                                       *)
(*                                                                         *)
(* Representation.                                                         *)
(*   - A Python str is a sequence of one-character strings.                *)
(*   - A naive datetime is a record of its fields; an aware datetime is a  *)
(*     record [dt |-> wall clock fields, tz |-> zone].                     *)
(*   - A zone is [key, off, abbr]: its key, its UTC offset in minutes and  *)
(*     its abbreviation (%Z).  The instants of the `tz` runs lie in        *)
(*     January and February, where no modelled zone has a transition.      *)
(*   - tzdiff, a float number of hours in the code, is kept as the exact   *)
(*     number of minutes (hours = tzdiff / 60).  Zone offsets are whole    *)
(*     minutes, so every difference of two projections is whole minutes.   *)
(***************************************************************************)
EXTENDS Integers, Sequences, FiniteSets, TLC

VARIABLES
    \* the host: its local zone and the name tzlocal reports for it
    host,
    \* the command line of `tz`.  click hands every option to tz() at once; a
    \* flag no step has read yet cannot influence the run, so the four flags are
    \* drawn at the step that first reads them and are None until then.
    hours_, date_value, print_local, print_local_timezone, print_tz,
    sort_diffs, round_, tz,
    \* the run
    pc, date_, aware, picked, lookups, dates, tznames, diffs, tzinfos,
    stdout, exit_code, err, picker_calls,
    \* a single application of a helper function: [fn, arg, res]
    probe

cli == <<hours_, date_value, print_local, print_local_timezone, print_tz,
         sort_diffs, round_, tz>>
run == <<pc, date_, aware, picked, lookups, dates, tznames, diffs, tzinfos,
         stdout, exit_code, err, picker_calls>>
vars == <<host, cli, run, probe>>

\* Optional[T]: None is the empty sequence, a value x is <<x>>
None == <<>>
Some(x) == <<x>>

-----------------------------------------------------------------------------
(* Bounds *)

MaxTokens == 2
MaxHours == 2
MaxDiff == 100

-----------------------------------------------------------------------------
(* Strings *)

s_UTC == <<"U", "T", "C">>
s_Japan == <<"J", "a", "p", "a", "n">>
s_Iran == <<"I", "r", "a", "n">>
s_EST == <<"E", "S", "T">>
s_HST == <<"H", "S", "T">>
s_JST == <<"J", "S", "T">>
s_Hawaii == <<"H", "a", "w", "a", "i", "i">>
s_US == <<"U", "S", "/">>
s_Mars == <<"M", "a", "r", "s", "/", "C", "o", "l", "o", "n", "y", "1">>
s_Tokyo == <<"T", "o", "k", "y", "o">>
s_Here == <<"H", "e", "r", "e">>
s_local == <<"l", "o", "c", "a", "l">>
s_p0330 == <<"+", "0", "3", "3", "0">>

Digits == <<"0", "1", "2", "3", "4", "5", "6", "7", "8", "9">>

IsSpace(c) == c \in {" ", "\t", "\n"}

RECURSIVE LStrip(_)
LStrip(s) ==
    IF s # <<>> /\ IsSpace(Head(s)) THEN LStrip(Tail(s)) ELSE s

RECURSIVE RStrip(_)
RStrip(s) ==
    IF s # <<>> /\ IsSpace(s[Len(s)]) THEN RStrip(SubSeq(s, 1, Len(s) - 1)) ELSE s

\* str.strip()
Strip(s) == RStrip(LStrip(s))

\* the index of the first c in s, 0 when there is none
RECURSIVE FindFrom(_, _, _)
FindFrom(s, c, i) ==
    IF i > Len(s) THEN 0
    ELSE IF s[i] = c THEN i
    ELSE FindFrom(s, c, i + 1)

Find(s, c) == FindFrom(s, c, 1)

\* str(n) for an integer n >= 0
RECURSIVE NatStr(_)
NatStr(n) ==
    IF n < 10 THEN <<Digits[n + 1]>>
    ELSE NatStr(n \div 10) \o <<Digits[(n % 10) + 1]>>

\* str(n) for an integer
IntStr(n) == IF n < 0 THEN <<"-">> \o NatStr(-n) ELSE NatStr(n)

\* n in at least w digits, zero-padded, as %H, %M, %d, %Y print it
RECURSIVE Pad(_, _)
Pad(s, w) == IF Len(s) < w THEN Pad(<<"0">> \o s, w) ELSE s

Pad2(n) == Pad(NatStr(n), 2)

-----------------------------------------------------------------------------
(* datetime and timedelta *)

IsLeap(y) == (y % 4 = 0) /\ ((y % 100 # 0) \/ (y % 400 = 0))

DaysInMonth(y, m) ==
    IF m = 2 THEN (IF IsLeap(y) THEN 29 ELSE 28)
    ELSE IF m \in {4, 6, 9, 11} THEN 30
    ELSE 31

NextDay(d) ==
    IF d.day < DaysInMonth(d.year, d.month) THEN [d EXCEPT !.day = d.day + 1]
    ELSE IF d.month < 12 THEN [d EXCEPT !.month = d.month + 1, !.day = 1]
    ELSE [d EXCEPT !.year = d.year + 1, !.month = 1, !.day = 1]

PrevDay(d) ==
    IF d.day > 1 THEN [d EXCEPT !.day = d.day - 1]
    ELSE IF d.month > 1
        THEN [d EXCEPT !.month = d.month - 1,
                       !.day = DaysInMonth(d.year, d.month - 1)]
    ELSE [d EXCEPT !.year = d.year - 1, !.month = 12, !.day = 31]

RECURSIVE ShiftDays(_, _)
ShiftDays(d, k) ==
    IF k = 0 THEN d
    ELSE IF k > 0 THEN ShiftDays(NextDay(d), k - 1)
    ELSE ShiftDays(PrevDay(d), k + 1)

\* datetime + timedelta(minutes=n): the fields below the minute are kept
AddMinutes(d, n) ==
    LET total == d.hour * 60 + d.minute + n
        shifted == ShiftDays(d, total \div 1440)
    IN  [shifted EXCEPT !.hour = (total % 1440) \div 60,
                        !.minute = total % 60]

\* datetime + timedelta(hours=n)
AddHours(d, n) == AddMinutes(d, 60 * n)

\* the days from January 1 of year 1 to the date of d
RECURSIVE DaysBeforeMonth(_, _)
DaysBeforeMonth(y, m) ==
    IF m = 1 THEN 0 ELSE DaysBeforeMonth(y, m - 1) + DaysInMonth(y, m - 1)

Ordinal(d) ==
    LET y == d.year - 1
    IN  y * 365 + y \div 4 - y \div 100 + y \div 400
        + DaysBeforeMonth(d.year, d.month) + d.day

\* (a - b).total_seconds() of two naive datetimes, without the microseconds
TotalSeconds(a, b) ==
    (Ordinal(a) - Ordinal(b)) * 86400
    + (a.hour - b.hour) * 3600 + (a.minute - b.minute) * 60
    + (a.second - b.second)

MonthAbbr ==
    << <<"J", "a", "n">>, <<"F", "e", "b">>, <<"M", "a", "r">>,
       <<"A", "p", "r">>, <<"M", "a", "y">>, <<"J", "u", "n">>,
       <<"J", "u", "l">>, <<"A", "u", "g">>, <<"S", "e", "p">>,
       <<"O", "c", "t">>, <<"N", "o", "v">>, <<"D", "e", "c">> >>

\* strftime("%H"), strftime("%H:%M"), strftime("[%b %d]")
StrfHour(d) == Pad2(d.hour)
StrfHourMinute(d) == Pad2(d.hour) \o <<":">> \o Pad2(d.minute)
StrfMonthDay(d) ==
    <<"[">> \o MonthAbbr[d.month] \o <<" ">> \o Pad2(d.day) \o <<"]">>

\* strftime("%Y-%m-%d %H:%M:%S %Z"), the default of --format, of an aware datetime
StrfDefault(a) ==
    Pad(NatStr(a.dt.year), 4) \o <<"-">> \o Pad2(a.dt.month) \o <<"-">>
    \o Pad2(a.dt.day) \o <<" ">> \o Pad2(a.dt.hour) \o <<":">>
    \o Pad2(a.dt.minute) \o <<":">> \o Pad2(a.dt.second) \o <<" ">> \o a.tz.abbr

-----------------------------------------------------------------------------
(* Zones *)

Zone(key, off, abbr) == [key |-> key, off |-> off, abbr |-> abbr]

\* The timezone database of the host.  Beside stock keys it holds US/HST, a
\* key that exists both bare and under US/ (with another offset), so that the
\* order of the two lookups of _parse_timezone can be observed.
TZDB ==
    { Zone(s_UTC, 0, s_UTC),
      Zone(s_Japan, 540, s_JST),
      Zone(s_Iran, 210, s_p0330),
      Zone(s_EST, -300, s_EST),
      Zone(s_HST, -600, s_HST),
      Zone(s_US \o s_HST, -540, s_HST),
      Zone(s_US \o s_Hawaii, -600, s_HST) }

available_timezones == {z.key : z \in TZDB}

\* zoneinfo.ZoneInfo(key), for a key of the database
ZoneInfo(key) == CHOOSE z \in TZDB : z.key = key

\* str(zone)
ZoneStr(z) == z.key

\* _parse_timezone(s): [ok, tz] and the keys looked up, in order
TryUSFirst(s) ==
    IF (s_US \o s) \in available_timezones
        THEN [ok |-> TRUE, tz |-> ZoneInfo(s_US \o s), tried |-> <<s_US \o s>>]
    ELSE IF s \in available_timezones
        THEN [ok |-> TRUE, tz |-> ZoneInfo(s), tried |-> <<s_US \o s, s>>]
    ELSE [ok |-> FALSE, tz |-> Zone(<<>>, 0, <<>>), tried |-> <<s_US \o s, s>>]

_parse_timezone(s) ==
    IF s \in available_timezones
        THEN [ok |-> TRUE, tz |-> ZoneInfo(s), tried |-> <<s>>]
    ELSE IF (s_US \o s) \in available_timezones
        THEN [ok |-> TRUE, tz |-> ZoneInfo(s_US \o s), tried |-> <<s, s_US \o s>>]
    ELSE [ok |-> FALSE, tz |-> Zone(<<>>, 0, <<>>), tried |-> <<s, s_US \o s>>]

\* _make_unaware(dt)
_make_unaware(a) == a.dt

\* naive.astimezone(): the naive datetime is taken as local time
AsLocal(d) == [dt |-> d, tz |-> Zone(<<>>, host.off, host.abbr)]

\* naive.astimezone(zone): taken as local time, then projected into zone
AsTimezone(d, zone) == [dt |-> AddMinutes(d, zone.off - host.off), tz |-> zone]

\* _local_tz(): the name tzlocal reports, parsed
_local_tz == _parse_timezone(host.name)

\* TZWithName.from_str(s): [ok, tz, name, tried]
FromStrKeepSpaces(s) ==
    LET i == Find(s, ":")
        r == IF i > 0 THEN _parse_timezone(Strip(SubSeq(s, i + 1, Len(s))))
             ELSE _parse_timezone(s)
    IN  [ok |-> r.ok, tz |-> r.tz, tried |-> r.tried,
         name |-> IF i > 0 THEN Some(SubSeq(s, 1, i - 1)) ELSE None]

from_str(s) ==
    LET i == Find(s, ":")
        r == IF i > 0 THEN _parse_timezone(Strip(SubSeq(s, i + 1, Len(s))))
             ELSE _parse_timezone(s)
    IN  [ok |-> r.ok, tz |-> r.tz, tried |-> r.tried,
         name |-> IF i > 0 THEN Some(Strip(SubSeq(s, 1, i - 1))) ELSE None]

\* p.name or str(p.tz)
Label(p) ==
    IF p.name # None /\ p.name[1] # <<>> THEN p.name[1] ELSE ZoneStr(p.tz)

-----------------------------------------------------------------------------
(* Rounding *)

Truncate(d) == [d EXCEPT !.minute = 0, !.second = 0, !.microsecond = 0]

\* rounds up only what is not on an hour boundary, and "nearest" from minute 31
RoundToCeiling(d, strategy) ==
    LET onHour == d.minute = 0 /\ d.second = 0 /\ d.microsecond = 0
        up == IF onHour THEN d ELSE Truncate(AddHours(d, 1))
    IN  IF strategy = "up" THEN up
        ELSE IF strategy = "down" THEN Truncate(d)
        ELSE IF d.minute > 30 THEN up ELSE Truncate(d)

_round_to(d, strategy) ==
    IF strategy = "up" THEN Truncate(AddHours(d, 1))
    ELSE IF strategy = "down" THEN Truncate(d)
    ELSE IF d.minute >= 30 THEN Truncate(AddHours(d, 1)) ELSE Truncate(d)

-----------------------------------------------------------------------------
(* Offsets *)

\* _sign(f)
SignNever(m) == <<>>

_sign(m) == IF m >= 0 THEN <<"+">> ELSE <<>>

\* the digits of |x| / 10^places for an integer x, as "%.<places>f" prints them
Fixed(x, places) ==
    LET a == IF x < 0 THEN -x ELSE x
        p == IF places = 1 THEN 10 ELSE 100
    IN  (IF x < 0 THEN <<"-">> ELSE <<>>)
        \o NatStr(a \div p) \o <<".">> \o Pad(NatStr(a % p), places)

\* the integer nearest to n / d, for d > 0 (no n / d of the model is a tie)
Nearest(n, d) == (2 * n + d) \div (2 * d)

\* _display_timezone_diff(fi), fi = m / 60 hours
_display_timezone_diff(m) ==
    LET s == IF m % 60 = 0 THEN IntStr(IF m < 0 THEN -((-m) \div 60) ELSE m \div 60)
             ELSE IF m % 6 = 0 THEN Fixed(IF m < 0 THEN -((-m) \div 6) ELSE m \div 6, 1)
             ELSE Fixed(IF m < 0 THEN -Nearest(5 * (-m), 3) ELSE Nearest(5 * m, 3), 2)
    IN  _sign(m) \o s

\* the differences in minutes between each date and the first, wall clock
DiffsToLast(ds) ==
    [i \in 1..Len(ds) |->
        TotalSeconds(_make_unaware(ds[i]), _make_unaware(ds[Len(ds)])) \div 60]

Diffs(ds) ==
    [i \in 1..Len(ds) |->
        TotalSeconds(_make_unaware(ds[i]), _make_unaware(ds[1])) \div 60]

\* TZInfo(dt, tzname, tzdiff) for dt, tzname, tzdiff in zip(dates, tznames, diffs)
Zip(ds, names, dfs) ==
    [i \in 1..Len(ds) |-> [dt |-> ds[i], tzname |-> names[i], tzdiff |-> dfs[i]]]

\* list.sort(key=tzdiff): ascending and stable, here by insertion
RECURSIVE Insert(_, _)
Insert(sorted, e) ==
    IF sorted = <<>> THEN <<e>>
    ELSE IF sorted[Len(sorted)].tzdiff <= e.tzdiff THEN Append(sorted, e)
    ELSE Append(Insert(SubSeq(sorted, 1, Len(sorted) - 1), e), sorted[Len(sorted)])

RECURSIVE InsertBeforeEqual(_, _)
InsertBeforeEqual(sorted, e) ==
    IF sorted = <<>> THEN <<e>>
    ELSE IF sorted[Len(sorted)].tzdiff < e.tzdiff THEN Append(sorted, e)
    ELSE Append(InsertBeforeEqual(SubSeq(sorted, 1, Len(sorted) - 1), e),
                sorted[Len(sorted)])

RECURSIVE SortUnstable(_)
SortUnstable(infos) ==
    IF infos = <<>> THEN <<>>
    ELSE InsertBeforeEqual(SortUnstable(SubSeq(infos, 1, Len(infos) - 1)),
                           infos[Len(infos)])

RECURSIVE SortByDiff(_)
SortByDiff(infos) ==
    IF infos = <<>> THEN <<>>
    ELSE Insert(SortByDiff(SubSeq(infos, 1, Len(infos) - 1)), infos[Len(infos)])

-----------------------------------------------------------------------------
(* Rendering *)

Truthy(h) == h # None /\ h[1] # 0

\* the hour columns of one row: for hr in range(hours_)
HourCellsOneMore(info, n) ==
    [k \in 1..(n + 1) |->
        LET shifted_dt == AddHours(info.dt.dt, k - 1)
        IN  IF shifted_dt.minute = 0 THEN StrfHour(shifted_dt)
            ELSE StrfHourMinute(shifted_dt)]

HourCells(info, n) ==
    [k \in 1..n |->
        LET shifted_dt == AddHours(info.dt.dt, k - 1)
        IN  IF shifted_dt.minute = 0 THEN StrfHour(shifted_dt)
            ELSE StrfHourMinute(shifted_dt)]

DiffCell(info) == <<"(">> \o _display_timezone_diff(info.tzdiff) \o <<")">>

\* one row of the hour strip
HourRow(info, ptz, n) ==
    (IF ptz THEN <<info.tzname, DiffCell(info), StrfMonthDay(info.dt.dt)>>
     ELSE <<>>)
    \o HourCells(info, n)

\* one row of the compact table, with the default --format
CompactRow(info, ptz) ==
    IF ptz THEN <<info.tzname, DiffCell(info), StrfDefault(info.dt)>>
    ELSE <<StrfDefault(info.dt)>>

\* the rows handed to tabulate and click.echo
Rows(infos, h, ptz) ==
    IF Truthy(h) THEN [i \in 1..Len(infos) |-> HourRow(infos[i], ptz, h[1])]
    ELSE [i \in 1..Len(infos) |-> CompactRow(infos[i], ptz)]

-----------------------------------------------------------------------------
(* Inputs *)

Instant(y, mo, d, h, mi, sec, us) ==
    [year |-> y, month |-> mo, day |-> d, hour |-> h, minute |-> mi,
     second |-> sec, microsecond |-> us]

\* what datetime.now() may return
NowInstants == {Instant(2023, 1, 31, 23, 30, 15, 250)}

\* what dateparser.parse may return: None, a naive or an aware datetime
DateparserResults ==
    { None,
      Some([dt |-> Instant(2023, 2, 28, 9, 0, 0, 0), tz |-> None]),
      Some([dt |-> Instant(2023, 2, 28, 21, 45, 0, 0), tz |-> Some(ZoneInfo(s_UTC))]) }

\* the hosts: [name |-> what tzlocal reports, off, abbr]
Hosts ==
    { [name |-> s_EST, off |-> -300, abbr |-> s_EST],
      [name |-> s_local, off |-> 0, abbr |-> s_UTC] }

HoursInputs == {None} \cup {Some(n) : n \in -1..MaxHours}

RoundInputs == {None, Some("up"), Some("down"), Some("nearest")}

Tokens ==
    { s_UTC, s_EST, s_Hawaii, s_Tokyo \o <<":">> \o s_Japan, s_Mars }

RECURSIVE SeqsUpTo(_, _)
SeqsUpTo(S, n) ==
    IF n = 0 THEN {<<>>}
    ELSE LET shorter == SeqsUpTo(S, n - 1)
         IN  shorter \cup {Append(q, x) : q \in {r \in shorter : Len(r) = n - 1}, x \in S}

TokenSeqs == SeqsUpTo(Tokens, MaxTokens)

\* what fzf.prompt may return: nothing, or the one line selected
FzfResults == {<<>>, <<s_Iran>>, <<s_UTC>>}

\* countryinfo._get_tz_from_fzf_line(line), for a line that is a zone key
_get_tz_from_fzf_line(line) == ZoneInfo(line)

-----------------------------------------------------------------------------
(* The `tz` command *)

Idle == [fn |-> "none"]

InitRun ==
    /\ pc = "parse_dates"
    /\ date_ = None /\ aware = None
    /\ picked = <<>> /\ lookups = <<>> /\ dates = <<>> /\ tznames = <<>>
    /\ diffs = <<>> /\ tzinfos = <<>>
    /\ stdout = <<>> /\ exit_code = None /\ err = "" /\ picker_calls = 0
    /\ print_local = None /\ print_local_timezone = None
    /\ print_tz = None /\ sort_diffs = None

InitArgs ==
    /\ host \in Hosts
    /\ hours_ \in HoursInputs
    /\ date_value \in {"now", "text"}
    /\ round_ \in RoundInputs

Init ==
    /\ InitArgs /\ InitRun
    /\ tz \in TokenSeqs
    /\ probe = Idle

\* an exception leaves tz(): message to standard error, exit code, no echo
Fail(msg, code) ==
    /\ pc' = "error"
    /\ err' = msg
    /\ exit_code' = Some(code)

\* dt.astimezone() where naive, then datetime.fromtimestamp(dt.timestamp())
ToLocalNaive(r) ==
    IF r.tz = None THEN r.dt ELSE AddMinutes(r.dt, host.off - r.tz[1].off)

\* the callback of --date
ParseDates ==
    /\ pc = "parse_dates"
    /\ IF date_value = "now"
        THEN \E n \in NowInstants :
                /\ date_' = Some(n)
                /\ pc' = "check_hours"
                /\ UNCHANGED <<err, exit_code>>
        ELSE \E r \in DateparserResults :
                IF r = None
                THEN Fail("failed to parse date", 2) /\ UNCHANGED date_
                ELSE /\ date_' = Some(ToLocalNaive(r[1]))
                     /\ pc' = "check_hours"
                     /\ UNCHANGED <<err, exit_code>>
    /\ UNCHANGED <<host, cli, aware, picked, lookups, dates, tznames, diffs,
                   tzinfos, stdout, picker_calls, probe>>

\* if hours_ and hours_ < 1
HoursRejected(h) == Truthy(h) /\ h[1] < 1

CheckHours ==
    /\ pc = "check_hours"
    /\ IF HoursRejected(hours_)
        THEN Fail("hours must be >= 1", 2)
        ELSE pc' = "round" /\ UNCHANGED <<err, exit_code>>
    /\ UNCHANGED <<host, cli, date_, aware, picked, lookups, dates, tznames,
                   diffs, tzinfos, stdout, picker_calls, probe>>

Round ==
    /\ pc = "round"
    /\ date_' = IF round_ = None THEN date_
                ELSE Some(_round_to(date_[1], round_[1]))
    /\ aware' = Some(AsLocal(date_'[1]))
    /\ pc' = "pick"
    /\ UNCHANGED <<host, cli, picked, lookups, dates, tznames, diffs, tzinfos,
                   stdout, exit_code, err, picker_calls, probe>>

\* the index of the first token that does not resolve, 0 when all do
RECURSIVE FirstFailure(_, _)
FirstFailure(rs, i) ==
    IF i > Len(rs) THEN 0
    ELSE IF ~rs[i].ok THEN i
    ELSE FirstFailure(rs, i + 1)

RECURSIVE Tried(_, _)
Tried(rs, n) == IF n = 0 THEN <<>> ELSE Tried(rs, n - 1) \o rs[n].tried

Pick ==
    /\ pc = "pick"
    /\ IF tz # <<>>
        THEN LET rs == [i \in 1..Len(tz) |-> from_str(tz[i])]
                 bad == FirstFailure(rs, 1)
             IN  /\ lookups' = Tried(rs, IF bad = 0 THEN Len(rs) ELSE bad)
                 /\ UNCHANGED picker_calls
                 /\ IF bad # 0
                    THEN Fail("failed to parse timezone", 1) /\ UNCHANGED picked
                    ELSE /\ picked' = [i \in 1..Len(rs) |->
                                          [tz |-> rs[i].tz, name |-> rs[i].name]]
                         /\ pc' = "project"
                         /\ UNCHANGED <<err, exit_code>>
        ELSE \E result \in FzfResults :
                /\ picker_calls' = picker_calls + 1
                /\ UNCHANGED lookups
                /\ IF result = <<>>
                   THEN Fail("No timezone selected", 2) /\ UNCHANGED picked
                   ELSE /\ picked' = <<[tz |-> _get_tz_from_fzf_line(result[1]),
                                        name |-> None]>>
                        /\ pc' = "project"
                        /\ UNCHANGED <<err, exit_code>>
    /\ UNCHANGED <<host, cli, date_, aware, dates, tznames, diffs, tzinfos,
                   stdout, probe>>

\* [*([aware] if print_local else []), *(date_.astimezone(p.tz) for p in picked)]
DatesLocalLast(pl, aw, d, pk) ==
    [i \in 1..Len(pk) |-> AsTimezone(d, pk[i].tz)] \o (IF pl THEN <<aw>> ELSE <<>>)

Dates(pl, aw, d, pk) ==
    (IF pl THEN <<aw>> ELSE <<>>) \o [i \in 1..Len(pk) |-> AsTimezone(d, pk[i].tz)]

\* the label of the local row, given that _local_tz() succeeds
LocalLabel(plt) == IF plt THEN ZoneStr(_local_tz.tz) ELSE s_Here

TzNames(pl, plt, pk) ==
    (IF pl THEN <<LocalLabel(plt)>> ELSE <<>>) \o [i \in 1..Len(pk) |-> Label(pk[i])]

Project ==
    /\ pc = "project"
    /\ \E pl \in BOOLEAN, plt \in BOOLEAN :
        /\ print_local' = Some(pl)
        /\ print_local_timezone' = Some(plt)
        /\ dates' = Dates(pl, aware[1], date_[1], picked)
        /\ IF pl /\ plt /\ ~_local_tz.ok
           THEN Fail("failed to parse timezone", 1) /\ UNCHANGED tznames
           ELSE /\ tznames' = TzNames(pl, plt, picked)
                /\ IF Len(dates') = Len(tznames')
                   THEN pc' = "diffs" /\ UNCHANGED <<err, exit_code>>
                   ELSE Fail("mismatched dates and timezones", 1)
    /\ UNCHANGED <<host, hours_, date_value, print_tz, sort_diffs, round_, tz,
                   date_, aware, picked, lookups, diffs, tzinfos, stdout,
                   picker_calls, probe>>

ComputeDiffs ==
    /\ pc = "diffs"
    /\ \E sd \in BOOLEAN :
        /\ sort_diffs' = Some(sd)
        /\ diffs' = Diffs(dates)
        /\ tzinfos' = IF sd THEN SortByDiff(Zip(dates, tznames, diffs'))
                      ELSE Zip(dates, tznames, diffs')
    /\ pc' = "render"
    /\ UNCHANGED <<host, hours_, date_value, print_local, print_local_timezone,
                   print_tz, round_, tz, date_, aware, picked, lookups, dates,
                   tznames, stdout, exit_code, err, picker_calls, probe>>

Render ==
    /\ pc = "render"
    /\ \E ptz \in BOOLEAN :
        /\ print_tz' = Some(ptz)
        /\ stdout' = Rows(tzinfos, hours_, ptz)
    /\ pc' = "done"
    /\ exit_code' = Some(0)
    /\ UNCHANGED <<host, hours_, date_value, print_local, print_local_timezone,
                   sort_diffs, round_, tz, date_, aware, picked, lookups, dates,
                   tznames, diffs, tzinfos, err, picker_calls, probe>>

Next ==
    \/ ParseDates
    \/ CheckHours
    \/ Round
    \/ Pick
    \/ Project
    \/ ComputeDiffs
    \/ Render

Spec == Init /\ [][Next]_vars

-----------------------------------------------------------------------------
(* Token resolution on its own: runs of `tz` over single tokens built from  *)
(* a display name and a zone string.                                        *)

\* display names as typed, with what str.strip() leaves of them
NameCases ==
    { [raw |-> s_Tokyo, trimmed |-> s_Tokyo],
      [raw |-> <<" ">> \o s_Tokyo \o <<" ", " ">>, trimmed |-> s_Tokyo],
      [raw |-> <<>>, trimmed |-> <<>>],
      [raw |-> <<" ">>, trimmed |-> <<>>] }

\* zone strings as typed, with what str.strip() leaves of them
ZoneCases ==
    { [raw |-> s_UTC, trimmed |-> s_UTC],
      [raw |-> <<" ">> \o s_Iran \o <<" ">>, trimmed |-> s_Iran],
      [raw |-> s_Hawaii, trimmed |-> s_Hawaii],
      [raw |-> s_HST, trimmed |-> s_HST],
      [raw |-> s_US \o s_HST, trimmed |-> s_US \o s_HST],
      [raw |-> s_Mars, trimmed |-> s_Mars],
      [raw |-> s_UTC \o <<":">> \o s_UTC, trimmed |-> s_UTC \o <<":">> \o s_UTC] }

NamedToken(n, z) == n.raw \o <<":">> \o z.raw

PlainTokens == {s_UTC, s_Hawaii, s_HST, s_US \o s_HST, s_Mars, <<" ">> \o s_UTC}

TokenInputs ==
    {<<NamedToken(n, z)>> : n \in NameCases, z \in ZoneCases}
    \cup {<<t>> : t \in PlainTokens}

InitTokens ==
    /\ InitArgs /\ InitRun
    /\ tz \in TokenInputs
    /\ probe = Idle

SpecTokens == InitTokens /\ [][Next]_vars

-----------------------------------------------------------------------------
(* Helper functions on their own: one application per behaviour *)

InitIdle ==
    /\ host = [name |-> s_EST, off |-> -300, abbr |-> s_EST]
    /\ hours_ = None /\ date_value = "now" /\ round_ = None /\ tz = <<>>
    /\ print_local = None /\ print_local_timezone = None
    /\ print_tz = None /\ sort_diffs = None
    /\ pc = "idle"
    /\ date_ = None /\ aware = None
    /\ picked = <<>> /\ lookups = <<>> /\ dates = <<>> /\ tznames = <<>>
    /\ diffs = <<>> /\ tzinfos = <<>>
    /\ stdout = <<>> /\ exit_code = None /\ err = "" /\ picker_calls = 0

RoundInstants ==
    { Instant(ymd[1], ymd[2], ymd[3], h, mi, sec, us) :
        ymd \in {<<2023, 1, 15>>, <<2023, 2, 28>>, <<2024, 2, 28>>, <<2023, 12, 31>>},
        h \in {0, 22, 23}, mi \in {0, 1, 29, 30, 31, 59},
        sec \in {0, 59}, us \in {0, 999999} }

InitRound ==
    /\ InitIdle
    /\ probe \in [fn : {"_round_to"}, dt : RoundInstants,
                   strategy : {"up", "down", "nearest"}, res : {None}]

ApplyRound ==
    /\ probe.fn = "_round_to" /\ probe.res = None
    /\ probe' = [probe EXCEPT !.res = Some(_round_to(probe.dt, probe.strategy))]
    /\ UNCHANGED <<host, cli, run>>

SpecRound == InitRound /\ [][ApplyRound]_vars

\* offsets in minutes: every one up to MaxDiff, and the quarter hours beyond
DiffInputs == (-MaxDiff..MaxDiff) \cup {15 * k : k \in -MaxDiff..MaxDiff}

InitDiff ==
    /\ InitIdle
    /\ probe \in [fn : {"_display_timezone_diff"}, m : DiffInputs, res : {None}]

ApplyDiff ==
    /\ probe.fn = "_display_timezone_diff" /\ probe.res = None
    /\ probe' = [probe EXCEPT !.res = Some(_display_timezone_diff(probe.m))]
    /\ UNCHANGED <<host, cli, run>>

SpecDiff == InitDiff /\ [][ApplyDiff]_vars

-----------------------------------------------------------------------------
(* Properties *)

Range(q) == {q[i] : i \in 1..Len(q)}

\* the number of times each element occurs in q
BagOf(q) == [x \in Range(q) |-> Cardinality({i \in 1..Len(q) : q[i] = x})]

Count(q, c) == Cardinality({i \in 1..Len(q) : q[i] = c})

IsDigit(c) == c \in Range(Digits)

DigitValue(c) == CHOOSE v \in 0..9 : Digits[v + 1] = c

\* the number a sequence of digits writes
RECURSIVE Value(_)
Value(q) ==
    IF q = <<>> THEN 0
    ELSE 10 * Value(SubSeq(q, 1, Len(q) - 1)) + DigitValue(q[Len(q)])

Abs(x) == IF x < 0 THEN -x ELSE x

Finished == pc \in {"done", "error"}

Failed == pc = "error" /\ exit_code \notin {None, Some(0)} /\ stdout = <<>>

HoursChecked == pc \notin {"parse_dates", "check_hours", "idle"} /\ date_ # None

\* the entries before the sort, as the run computed them
PreSort ==
    [i \in 1..Len(dates) |->
        [dt |-> dates[i], tzname |-> tznames[i], tzdiff |-> diffs[i]]]

\* C1 (as claimed): once --hours has been checked, an N < 1 (0 included) has
\* ended the run with the usage error "hours must be >= 1" and no output.
C1_HoursBelowOneAborts ==
    (HoursChecked /\ hours_ # None /\ hours_[1] < 1)
        => (pc = "error" /\ err = "hours must be >= 1" /\ stdout = <<>>)

\* C2: _round_to(t, "down") is t with minute, second and microsecond zero and
\* hour and date kept; "up" is that of t + 1 hour, the hour advanced by exactly
\* one and the date by one day at hour 23, on an hour boundary too; "nearest"
\* is the "up" result iff t.minute >= 30 and the "down" result otherwise.
IsRoundedDown(t, r) ==
    /\ r.minute = 0 /\ r.second = 0 /\ r.microsecond = 0
    /\ r.hour = t.hour
    /\ r.year = t.year /\ r.month = t.month /\ r.day = t.day

IsRoundedUp(t, r) ==
    /\ r.minute = 0 /\ r.second = 0 /\ r.microsecond = 0
    /\ r.hour = (t.hour + 1) % 24
    /\ Ordinal(r) = Ordinal(t) + (IF t.hour = 23 THEN 1 ELSE 0)

C2_RoundTo ==
    (probe.fn = "_round_to" /\ probe.res # None) =>
        LET t == probe.dt
            r == probe.res[1]
        IN  /\ probe.strategy = "down" => IsRoundedDown(t, r)
            /\ probe.strategy = "up" => IsRoundedUp(t, r)
            /\ probe.strategy = "nearest" =>
                /\ (t.minute >= 30) <=> IsRoundedUp(t, r)
                /\ (t.minute < 30) <=> IsRoundedDown(t, r)

C2_Witness ==
    /\ probe.fn = "_round_to" /\ probe.res # None
    /\ probe.strategy = "up"
    /\ probe.dt.hour = 23 /\ probe.dt.minute = 0
    /\ probe.dt.second = 0 /\ probe.dt.microsecond = 0
    /\ probe.res[1].hour = 0 /\ probe.res[1].day = 1

\* C3: the offsets are those of the entries before the sort, relative to the
\* first of them (the local entry when local is printed, else the first zone):
\* entry 1 has offset 0, entry i has the wall-clock difference to entry 1, and
\* -S permutes the entries and the rendered rows without changing any of them.
C3_OffsetsBeforeSort ==
    (pc \in {"render", "done"}) =>
        /\ Len(diffs) = Len(dates)
        /\ diffs[1] = 0
        /\ print_local = Some(TRUE) => dates[1] = aware[1] /\ dates[1].dt = date_[1]
        /\ print_local = Some(FALSE) =>
            /\ dates[1].tz = picked[1].tz
            /\ dates[1].dt = AddMinutes(date_[1], picked[1].tz.off - host.off)
        /\ \A i \in 1..Len(dates) :
              AddMinutes(dates[1].dt, diffs[i]) = dates[i].dt
        /\ BagOf(tzinfos) = BagOf(PreSort)
        /\ pc = "done" => BagOf(stdout) = BagOf(Rows(PreSort, hours_, print_tz[1]))

C3_Witness ==
    /\ pc = "done"
    /\ sort_diffs = Some(TRUE) /\ print_tz = Some(TRUE)
    /\ tzinfos # PreSort
    /\ tzinfos[1].tzdiff < 0

\* what a token made of a name case and a zone case must resolve to
Resolves(z) == z.trimmed \in available_timezones
               \/ (s_US \o z.trimmed) \in available_timezones

\* C4 (as claimed): the label of "name:z" is the trimmed name, whatever the
\* name, an empty or blank one included.
C4_LabelIsName ==
    \A n \in NameCases, z \in ZoneCases :
        (tz = <<NamedToken(n, z)>> /\ Resolves(z) /\ pc \in {"diffs", "render", "done"})
            => tznames[Len(tznames)] = n.trimmed

\* C4 (amended): "name:z" is split at its first ":"; the trimmed remainder is
\* resolved as the zone; the label is the trimmed name when that is not empty
\* and the string form of the resolved zone when it is empty; a token "z"
\* without ":" is labelled with the string form of its zone.
C4_LabelIsNameUnlessEmpty ==
    /\ \A n \in NameCases, z \in ZoneCases :
        (tz = <<NamedToken(n, z)>> /\ Resolves(z) /\ pc \in {"diffs", "render", "done"}) =>
            /\ picked[1].name = Some(n.trimmed)
            /\ picked[1].tz.key \in {z.trimmed, s_US \o z.trimmed}
            /\ dates[Len(dates)].tz = picked[1].tz
            /\ tznames[Len(tznames)] =
                  (IF n.trimmed # <<>> THEN n.trimmed ELSE picked[1].tz.key)
            /\ (pc = "done" /\ print_tz = Some(TRUE)) =>
                  \E i \in 1..Len(stdout) : stdout[i][1] = tznames[Len(tznames)]
    /\ \A t \in PlainTokens :
        (tz = <<t>> /\ pc \in {"diffs", "render", "done"}) =>
            /\ picked[1].name = None
            /\ picked[1].tz.key \in {t, s_US \o t}
            /\ tznames[Len(tznames)] = picked[1].tz.key

C4_Witness ==
    /\ pc = "done" /\ print_tz = Some(TRUE)
    /\ tz = <<NamedToken([raw |-> <<" ">> \o s_Tokyo \o <<" ", " ">>, trimmed |-> s_Tokyo],
                         [raw |-> <<" ">> \o s_Iran \o <<" ">>, trimmed |-> s_Iran])>>
    /\ \E i \in 1..Len(stdout) : stdout[i][1] = s_Tokyo

\* the zone string of the single token of the run, trimmed as from_str trims it
ZoneStringOf(t) ==
    IF \E n \in NameCases, z \in ZoneCases : t = NamedToken(n, z)
    THEN (CHOOSE c \in NameCases \X ZoneCases : t = NamedToken(c[1], c[2]))[2].trimmed
    ELSE t

\* C5: a zone string s is looked up as s, and as "US/" + s only when s is
\* unknown: a known s gives its own zone after one lookup; an unknown s with a
\* known "US/" + s gives that zone; when neither is known the run ends with the
\* parse error, a non-zero exit code and no output.
C5_ParseOrder ==
    (Len(tz) = 1 /\ pc \in {"project", "diffs", "render", "done", "error"}
        /\ err \notin {"failed to parse date", "hours must be >= 1"}) =>
        LET s == ZoneStringOf(tz[1])
            us == s_US \o s
        IN  /\ s \in available_timezones =>
                /\ picked # <<>>
                /\ picked[1].tz = ZoneInfo(s)
                /\ lookups = <<s>>
            /\ (s \notin available_timezones /\ us \in available_timezones) =>
                /\ picked # <<>>
                /\ picked[1].tz = ZoneInfo(us)
                /\ lookups = <<s, us>>
            /\ (s \notin available_timezones /\ us \notin available_timezones) =>
                /\ Failed
                /\ err = "failed to parse timezone"
                /\ picked = <<>>
                /\ lookups = <<s, us>>

C5_Witness ==
    /\ tz = <<s_Mars>>
    /\ Failed /\ err = "failed to parse timezone"
    /\ lookups = <<s_Mars, s_US \o s_Mars>>

\* the tokens of the run that no lookup can resolve
Unresolvable(t) == t = s_Mars

\* C6 (as claimed): nothing is written before every resolution step has
\* succeeded, and a failed date parse, an --hours below 1, an unparsable token
\* at any position or a cancelled pick ends the run with a non-zero exit code
\* and no output.
C6_NoOutputOnFailure ==
    /\ stdout # <<>> => pc = "done"
    /\ Finished =>
        ((\/ date_ = None
          \/ (hours_ # None /\ hours_[1] < 1)
          \/ \E i \in 1..Len(tz) : Unresolvable(tz[i])
          \/ (tz = <<>> /\ picked = <<>>)
          \/ (print_local = Some(TRUE) /\ print_local_timezone = Some(TRUE)
                /\ host.name \notin available_timezones))
            => Failed)

\* C7: _display_timezone_diff writes an integral offset as a signed integer
\* without a decimal point (zero as +0), any other offset with one decimal
\* place when it has one decimal digit and with two otherwise, and always
\* with one explicit sign: + from zero up, - below.
C7_SignedOffset ==
    (probe.fn = "_display_timezone_diff" /\ probe.res # None) =>
        LET m == probe.m
            t == probe.res[1]
            dot == Find(t, ".")
            whole == SubSeq(t, 2, IF dot = 0 THEN Len(t) ELSE dot - 1)
            frac == IF dot = 0 THEN <<>> ELSE SubSeq(t, dot + 1, Len(t))
            hundredths == 100 * Value(whole)
                          + (IF Len(frac) = 1 THEN 10 ELSE 1) * Value(frac)
        IN  /\ t[1] = (IF m >= 0 THEN "+" ELSE "-")
            /\ Count(t, "+") + Count(t, "-") = 1
            /\ whole # <<>> /\ \A i \in 1..Len(whole) : IsDigit(whole[i])
            /\ Len(whole) > 1 => whole[1] # "0"
            /\ \A i \in 1..Len(frac) : IsDigit(frac[i])
            /\ Count(t, ".") = (IF m % 60 = 0 THEN 0 ELSE 1)
            /\ Len(frac) = (IF m % 60 = 0 THEN 0 ELSE IF (10 * m) % 60 = 0 THEN 1 ELSE 2)
            /\ Abs(60 * hundredths - 100 * Abs(m)) <= 30
            /\ m = 0 => t = <<"+", "0">>

C7_Witness ==
    /\ probe.fn = "_display_timezone_diff"
    /\ probe.m = -345
    /\ probe.res = Some(<<"-", "5", ".", "7", "5">>)

\* the k-th hour label of a row whose projected wall clock is d
HourLabel(d, k) ==
    LET h == (d.hour + k) % 24
    IN  IF d.minute = 0 THEN Pad2(h) ELSE Pad2(h) \o <<":">> \o Pad2(d.minute)

\* C8: with --hours N >= 1 every row has exactly N hour columns, the k-th
\* being the projected wall clock plus k hours, written HH when its minute is
\* zero and HH:MM otherwise, so all HH or all HH:MM within a row; with the info
\* columns printed, exactly label, (offset) and [Mon DD] come before them.
C8_HourStrip ==
    (pc = "done" /\ hours_ # None /\ hours_[1] >= 1) =>
        /\ Len(stdout) = Len(tzinfos)
        /\ \A i \in 1..Len(stdout) :
            LET row == stdout[i]
                info == tzinfos[i]
                N == hours_[1]
                lead == IF print_tz = Some(TRUE) THEN 3 ELSE 0
            IN  /\ Len(row) = lead + N
                /\ \A k \in 0..(N - 1) : row[lead + k + 1] = HourLabel(info.dt.dt, k)
                /\ \/ \A k \in 1..N : Len(row[lead + k]) = 2 /\ info.dt.dt.minute = 0
                   \/ \A k \in 1..N : Len(row[lead + k]) = 5 /\ info.dt.dt.minute # 0
                /\ print_tz = Some(TRUE) =>
                    /\ row[1] = info.tzname
                    /\ row[2] = <<"(">> \o _display_timezone_diff(info.tzdiff) \o <<")">>
                    /\ row[3] = <<"[">> \o MonthAbbr[info.dt.dt.month] \o <<" ">>
                                \o Pad2(info.dt.dt.day) \o <<"]">>

C8_Witness ==
    /\ pc = "done" /\ hours_ = Some(2) /\ print_tz = Some(TRUE)
    /\ \E i \in 1..Len(stdout) :
        /\ Len(stdout[i]) = 5
        /\ Len(stdout[i][4]) = 5
        /\ stdout[i][4][1] = "2" /\ stdout[i][5][1] = "0"

\* the zone key and the label each resolvable token of the run stands for
TokenKey(t) ==
    IF t = s_Hawaii THEN s_US \o s_Hawaii
    ELSE IF t = s_Tokyo \o <<":">> \o s_Japan THEN s_Japan
    ELSE t

TokenLabel(t) ==
    IF t = s_Hawaii THEN s_US \o s_Hawaii
    ELSE IF t = s_Tokyo \o <<":">> \o s_Japan THEN s_Tokyo
    ELSE t

\* C9: a run that gets past resolution has (1 if local is printed else 0) +
\* max(number of tokens, 1) entries: the local projection first when printed,
\* then one entry per token in token order, or the one picked zone when there
\* is no token (the picker runs in that case only); labels and datetimes have
\* the same length and order.
C9_EntryList ==
    /\ picker_calls \in {0, 1}
    /\ picker_calls = 1 => tz = <<>>
    /\ (tz = <<>> /\ pc \in {"project", "diffs", "render", "done"}) => picker_calls = 1
    /\ pc \in {"diffs", "render", "done"} =>
        LET lead == IF print_local = Some(TRUE) THEN 1 ELSE 0
            n == IF Len(tz) > 1 THEN Len(tz) ELSE 1
        IN  /\ Len(dates) = lead + n
            /\ Len(dates) > 0
            /\ Len(tznames) = Len(dates)
            /\ lead = 1 =>
                /\ dates[1] = aware[1]
                /\ dates[1].dt = date_[1]
                /\ tznames[1] = (IF print_local_timezone = Some(TRUE)
                                 THEN host.name ELSE s_Here)
            /\ \A i \in 1..Len(tz) :
                /\ dates[lead + i].tz.key = TokenKey(tz[i])
                /\ tznames[lead + i] = TokenLabel(tz[i])
            /\ tz = <<>> =>
                /\ Len(picked) = 1
                /\ dates[lead + 1].tz = picked[1].tz
                /\ tznames[lead + 1] = picked[1].tz.key
            /\ pc = "done" => Len(stdout) = Len(dates)

C9_Witness ==
    /\ pc = "done"
    /\ tz = <<s_Tokyo \o <<":">> \o s_Japan, s_UTC>>
    /\ hours_ = Some(2) /\ print_local = Some(TRUE) /\ print_tz = Some(TRUE)
    /\ Len(stdout) = 3
    /\ \A i \in 1..3 : Len(stdout[i]) = 5
    /\ stdout[1][1] = s_Here /\ stdout[2][1] = s_Tokyo /\ stdout[3][1] = s_UTC

\* the entries of q whose offset is v, in the order of q
WithOffset(q, v) ==
    LET Test(e) == e.tzdiff = v
    IN  SelectSeq(q, Test)

\* C10: with -S the rows are in ascending order of offset and entries of equal
\* offset keep the order they had before the sort; without -S the rows are in
\* the order before the sort.
C10_StableSort ==
    (pc \in {"render", "done"}) =>
        /\ sort_diffs = Some(TRUE) =>
            /\ \A i, j \in 1..Len(tzinfos) :
                  i < j => tzinfos[i].tzdiff <= tzinfos[j].tzdiff
            /\ Len(tzinfos) = Len(PreSort)
            /\ \A v \in Range(diffs) : WithOffset(tzinfos, v) = WithOffset(PreSort, v)
        /\ sort_diffs = Some(FALSE) => tzinfos = PreSort
        /\ pc = "done" =>
            /\ Len(stdout) = Len(tzinfos)
            /\ print_tz = Some(TRUE) =>
                \A i \in 1..Len(stdout) :
                    /\ stdout[i][1] = tzinfos[i].tzname
                    /\ stdout[i][2] = <<"(">> \o _display_timezone_diff(tzinfos[i].tzdiff)
                                      \o <<")">>

C10_Witness ==
    /\ pc = "done" /\ sort_diffs = Some(TRUE) /\ print_tz = Some(TRUE)
    /\ Len(stdout) = 3
    /\ tzinfos[1].tzdiff < 0
    /\ tzinfos[2].tzdiff = 0 /\ tzinfos[3].tzdiff = 0
    /\ stdout[2][1] = s_Here /\ stdout[3][1] = s_EST

====
